---- MODULE Spec2Model ----
(***************************************************************************)
(* Model of evaluation.py: downvote_seen_items, topn_recommendations,      *)
(* topidx and model_evaluate.                                              *)
(*                                                                         *)
(* numpy arrays are functions over 0..len-1 (0-based, as in the source);   *)
(* a 2-D array is a function from row index to row.  The interaction table *)
(* (a pandas DataFrame) is a sequence of records [user, item].             *)
(* Scores are integers 0..MaxScore; -np.inf is NegInf, below every score.  *)
(* The floats hr, mrr and cov are kept as exact fractions <<num, den>>.    *)
(***************************************************************************)
EXTENDS Integers, Sequences, FiniteSets, TLC

VARIABLES pc, scores0, scores, data, topn, recommendations, err,
          holdout_items, n_items, metrics

vars == <<pc, scores0, scores, data, topn, recommendations, err,
          holdout_items, n_items, metrics>>

\* ---------------------------------------------------------------- bounds
NumUsers == 2
NumItems == 3
MaxScore == 1
MaxData == 2

\* -np.inf (evaluation.py:14): smaller than every score of the model.
NegInf == -1

Cols == 0..(NumItems - 1)
ScoreVals == 0..MaxScore

\* ------------------------------------------------------- array helpers
Size(a) == Cardinality(DOMAIN a)

Min2(x, y) == IF x < y THEN x ELSE y

Max2(x, y) == IF x > y THEN x ELSE y

\* scores.shape
NRows(m) == Size(m)

NCols(m) == IF Size(m) = 0 THEN 0 ELSE Size(m[0])

\* All orderings of the positions 0..n-1, for every array length in use.
AllPerms ==
    [n \in 0..NumItems |->
        {p \in [0..(n - 1) -> 0..(n - 1)] : \A i, j \in 0..(n - 1) : p[i] = p[j] => i = j}]

Perms(n) == AllPerms[n]

\* python's a[start:] for a 1-D array a (start may be negative).
SliceFrom(a, start) ==
    LET n == Size(a)
        s == IF start < 0 THEN Max2(n + start, 0) ELSE Min2(start, n)
    IN  [k \in 0..(n - s - 1) |-> a[s + k]]

\* numpy fancy indexing a[idx] for 1-D arrays.
Take(a, idx) == [k \in DOMAIN idx |-> a[idx[k]]]

\* ------------------------------------------------- downvote_seen_items
\* data[userid].values / data[itemid].values
UserColumn(d) == [k \in DOMAIN d |-> d[k].user]

ItemColumn(d) == [k \in DOMAIN d |-> d[k].item]

\* The uniques of pd.factorize(values, sort=True): the distinct values in
\* ascending order, as a 0-based array.
SortedUniques(values) ==
    LET S == {values[k] : k \in DOMAIN values}
    IN  CHOOSE uq \in [0..(Cardinality(S) - 1) -> S] :
            \A i, j \in DOMAIN uq : i < j => uq[i] < uq[j]

\* The uniques in order of first appearance (what sort=False yields).
FactorizeUnsorted(values) ==
    LET S == {values[k] : k \in DOMAIN values}
        first(x) == CHOOSE k \in DOMAIN values :
                        values[k] = x /\ \A j \in DOMAIN values : values[j] = x => k <= j
    IN  [k \in DOMAIN values |->
            Cardinality({y \in S : first(y) < first(values[k])})]

\* The codes of pd.factorize(values, sort=True): each value's position in
\* the sorted uniques.
Factorize(values) ==
    LET uq == SortedUniques(values)
    IN  [k \in DOMAIN values |-> CHOOSE c \in DOMAIN uq : uq[c] = values[k]]

\* mode='clip' instead: nothing is ever rejected.
RavelNeverRaises(rows, cols, nr, nc) == TRUE

\* np.ravel_multi_index((rows, cols), shape) in its default mode 'raise':
\* a coordinate outside the shape is rejected.
RavelInBounds(rows, cols, nr, nc) ==
    \A k \in DOMAIN rows : rows[k] \in 0..(nr - 1) /\ cols[k] \in 0..(nc - 1)

\* The flat (row-major) index of every coordinate pair.
RavelMultiIndex(rows, cols, nr, nc) == [k \in DOMAIN rows |-> rows[k] * nc + cols[k]]

\* np.put with the sign of the value lost (np.inf written for -np.inf).
PutNegated(m, flat, v) ==
    LET nc == NCols(m)
    IN  [u \in DOMAIN m |-> [i \in DOMAIN m[u] |->
            IF \E k \in DOMAIN flat : flat[k] = u * nc + i THEN 0 - v ELSE m[u][i]]]

\* np.put(m, flat, v): m.flat[flat[k]] = v for every k (row-major order).
Put(m, flat, v) ==
    LET nc == NCols(m)
    IN  [u \in DOMAIN m |-> [i \in DOMAIN m[u] |->
            IF \E k \in DOMAIN flat : flat[k] = u * nc + i THEN v ELSE m[u][i]]]

\* downvote_seen_items(scores, data, data_description)
Downvote(d) ==
    /\ pc = "start"
    /\ data' = d
    /\ LET user_idx == Factorize(UserColumn(d))
           item_idx == ItemColumn(d)
       IN  IF RavelInBounds(user_idx, item_idx, NRows(scores), NCols(scores))
           THEN /\ scores' = Put(scores,
                                 RavelMultiIndex(user_idx, item_idx, NRows(scores), NCols(scores)),
                                 NegInf)
                /\ pc' = "suppressed"
                /\ err' = "none"
           ELSE /\ scores' = scores
                /\ pc' = "downvote_raised"
                /\ err' = "ValueError"
    /\ UNCHANGED <<scores0, topn, recommendations, holdout_items, n_items, metrics>>

\* ------------------------------------------------------------- topidx
\* A bound check that takes kth for a negative offset only.
KthNegativeOnly(n, kth) == kth >= -n /\ kth < 0

\* np.argpartition(a, kth) accepts kth in [-len, len); anything else raises
\* ValueError ("kth out of bounds").
KthInBounds(n, kth) == kth >= -n /\ kth < n

\* A negative kth counts from the end of the array.
NormKth(n, kth) == IF kth < 0 THEN kth + n ELSE kth

\* The outcomes of np.argpartition(a, kth): an ordering p of the positions
\* with a[p[k]] in its sorted place, nothing larger before it and nothing
\* smaller after it.  The order inside the two parts is left open by numpy
\* (it depends on the selection kernel in use), so every such ordering is
\* an outcome.
ArgPartition(a, kth) ==
    LET n == Size(a)
        k == NormKth(n, kth)
    IN  {p \in Perms(n) : \A j \in 0..(n - 1) :
            /\ j < k => a[p[j]] <= a[p[k]]
            /\ j > k => a[p[j]] >= a[p[k]]}

\* The outcomes of np.argsort(x) with the default kind (quicksort, not
\* stable): every ordering that puts x in non-decreasing order.
ArgSort(x) ==
    {s \in Perms(Size(x)) : \A i, j \in DOMAIN x : i < j => x[s[i]] <= x[s[j]]}

\* -a[parted]
Negate(x) == [k \in DOMAIN x |-> 0 - x[k]]

\* a[:topn] taken where a[-topn:] was meant (the smallest end of the partition).
PartedHead(p, n) == [k \in 0..(Min2(Max2(n, 0), Size(p)) - 1) |-> p[k]]

\* np.argpartition(a, -topn)[-topn:] for one outcome p of argpartition.
Parted(p, n) == SliceFrom(p, 0 - n)

\* parted[np.argsort(a[parted])]: the negation forgotten, ascending order.
SortedAscending(a, parted) == {Take(parted, s) : s \in ArgSort(Take(a, parted))}

\* parted left as argpartition returned it.
Unsorted(a, parted) == {parted}

\* parted[np.argsort(-a[parted])]
SortedDescending(a, parted) == {Take(parted, s) : s \in ArgSort(Negate(Take(a, parted)))}

\* topidx(a, topn): the set of arrays the call can return.
Topidx(a, n) ==
    UNION {SortedDescending(a, Parted(p, n)) : p \in ArgPartition(a, 0 - n)}

\* np.apply_along_axis(f, 1, m): the matrices whose row u is an outcome of
\* f on row u of m, built row by row; T[u] is the set of outcomes for row u.
RECURSIVE AlongAxis(_, _)
AlongAxis(T, k) ==
    IF k = 0 THEN {<<>>}
    ELSE {[u \in 0..(k - 1) |-> IF u = k - 1 THEN x ELSE r[u]] :
            r \in AlongAxis(T, k - 1), x \in T[k - 1]}

\* topn_recommendations(scores, topn)
TopnRecommendations(m, n) ==
    AlongAxis([u \in DOMAIN m |-> Topidx(m[u], n)], NRows(m))

TopN(n) ==
    /\ pc \in {"start", "suppressed"}
    /\ topn' = n
    /\ IF KthInBounds(NCols(scores), 0 - n)
       THEN /\ recommendations' \in TopnRecommendations(scores, n)
            /\ pc' = "selected"
            /\ err' = "none"
       ELSE /\ recommendations' = recommendations
            /\ pc' = "topn_raised"
            /\ err' = "ValueError"
    /\ UNCHANGED <<scores0, scores, data, holdout_items, n_items, metrics>>

\* ------------------------------------------------------------- inputs
\* User identifiers are arbitrary labels, not row numbers.
UserIds == {3 * k + 2 : k \in 1..MaxData}

\* Item identifiers of the interaction table, one below and one above the
\* columns of the matrix included.
ItemIds == (0 - 1)..NumItems

Records == [user : UserIds, item : ItemIds]

\* Interaction tables of 1..len rows.
Tables(len) == UNION {[1..k -> Records] : k \in 1..len}

\* Values of the topn argument, degenerate ones included.
TopnVals == (0 - NumItems)..(NumItems + 1)

\* A row whose scores are all different.
RampRow(u) == [i \in Cols |-> (u + i) % NumItems]

\* Score matrices of NumUsers rows: the first row ranges over all rows of
\* scores, the others are ramp rows.
ScoreMatrices ==
    {[u \in 0..(NumUsers - 1) |-> IF u = 0 THEN a ELSE RampRow(u)] :
        a \in [Cols -> ScoreVals]}

\* Score matrices of 1..NumUsers rows with fixed contents.
RampMatrices ==
    {[u \in 0..(nr - 1) |-> [i \in Cols |-> (u + i + c) % (MaxScore + 1)]] :
        nr \in 1..NumUsers, c \in ScoreVals}

NoEval ==
    /\ holdout_items = <<>>
    /\ n_items = 0
    /\ metrics = <<>>

InitWith(M) ==
    /\ pc = "start"
    /\ scores0 \in M
    /\ scores = scores0
    /\ data = <<>>
    /\ topn = 0
    /\ recommendations = <<>>
    /\ err = "none"
    /\ NoEval

\* The pipeline: one seen interaction is suppressed, or none, then the
\* top-n items of every row are selected.
Init == InitWith(ScoreMatrices)

Suppress == \E d \in Tables(1) : Downvote(d)

Select == \E n \in TopnVals : TopN(n)

Next == Suppress \/ Select

Spec == Init /\ [][Next]_vars

\* The suppressor alone, on tables of up to MaxData rows.
InitSuppress == InitWith(RampMatrices)

SuppressTable == \E d \in Tables(MaxData) : Downvote(d)

NextSuppress == SuppressTable

SpecSuppress == InitSuppress /\ [][NextSuppress]_vars

\* ------------------------------------------------------ model_evaluate
\* python's a[:stop] column range for a row of n entries.
SliceTo(n, stop) ==
    0..((IF stop < 0 THEN Max2(n + stop, 0) ELSE Min2(stop, n)) - 1)

\* Fractions <<numerator, denominator>> with a positive denominator.
FracAdd(x, y) == <<x[1] * y[2] + y[1] * x[2], x[2] * y[2]>>

FracLeq(x, y) == x[1] * y[2] <= y[1] * x[2]

FracEq(x, y) == x[1] * y[2] = y[1] * x[2]

\* The whole row compared, the [:, :topn] slice forgotten.
HitsMaskUnsliced(rec, holdout, n) ==
    {<<u, k>> \in (DOMAIN rec) \X (0..(NCols(rec) - 1)) : rec[u][k] = holdout[u]}

\* hits_mask = recommended_items[:, :topn] == holdout_items.reshape(-1, 1),
\* as the set of its True positions <<row, column>>.
HitsMask(rec, holdout, n) ==
    {<<u, k>> \in (DOMAIN rec) \X SliceTo(NCols(rec), n) : rec[u][k] = holdout[u]}

\* hr = np.mean(hits_mask.any(axis=1))
HitRate(rec, mask) == <<Cardinality({u \in DOMAIN rec : \E h \in mask : h[1] = u}), NRows(rec)>>

\* np.sum(1 / hit_rank) with hit_rank = np.where(hits_mask)[1] + 1.0
RECURSIVE SumReciprocalRanks(_)
SumReciprocalRanks(mask) ==
    IF mask = {} THEN <<0, 1>>
    ELSE LET h == CHOOSE x \in mask : TRUE
         IN  FracAdd(<<1, h[2] + 1>>, SumReciprocalRanks(mask \ {h}))

\* The sum divided by the number of users that were hit.
MeanReciprocalRankOverHits(rec, mask) ==
    LET s == SumReciprocalRanks(mask)
    IN  <<s[1], s[2] * Max2(Cardinality({u \in DOMAIN rec : \E h \in mask : h[1] = u}), 1)>>

\* mrr = np.sum(1 / hit_rank) / n_test_users
MeanReciprocalRank(rec, mask) ==
    LET s == SumReciprocalRanks(mask)
    IN  <<s[1], s[2] * NRows(rec)>>

\* Only the first n columns counted.
CoverageOfSlice(rec, n, nitems) ==
    <<Cardinality({rec[u][k] : u \in DOMAIN rec, k \in SliceTo(NCols(rec), n)}), nitems>>

\* cov = np.unique(recommended_items).size / n_items
Coverage(rec, n, nitems) ==
    <<Cardinality({rec[u][k] : u \in DOMAIN rec, k \in 0..(NCols(rec) - 1)}), nitems>>

\* model_evaluate(recommended_items, holdout, holdout_description, topn)
Evaluate ==
    /\ pc = "recommended"
    /\ IF NRows(recommendations) = Size(holdout_items)
       THEN LET hits_mask == HitsMask(recommendations, holdout_items, topn)
            IN  /\ metrics' = [hr  |-> HitRate(recommendations, hits_mask),
                               mrr |-> MeanReciprocalRank(recommendations, hits_mask),
                               cov |-> Coverage(recommendations, topn, n_items)]
                /\ pc' = "evaluated"
                /\ err' = "none"
       ELSE /\ metrics' = metrics
            /\ pc' = "evaluate_raised"
            /\ err' = "AssertionError"
    /\ UNCHANGED <<scores0, scores, data, topn, recommendations, holdout_items, n_items>>

\* Width of the recommendation matrices given to model_evaluate.
RecWidth == NumItems - 1

\* A top-n list without repeated items.
RampRec(u) == [k \in 0..(RecWidth - 1) |-> (u + k) % NumItems]

\* Recommendation matrices: the first row ranges over all rows of item
\* indices (repeated items included), the others are ramp lists.
RecMatrices ==
    {[u \in 0..(NumUsers - 1) |-> IF u = 0 THEN a ELSE RampRec(u)] :
        a \in [0..(RecWidth - 1) -> Cols]}

\* One true item per user; one table is a row short of the matrix.
Holdouts == [0..(NumUsers - 1) -> Cols] \cup {[u \in 0..(NumUsers - 2) |-> 0]}

InitEval ==
    /\ pc = "recommended"
    /\ scores0 = <<>>
    /\ scores = <<>>
    /\ data = <<>>
    /\ err = "none"
    /\ recommendations \in RecMatrices
    /\ holdout_items \in Holdouts
    /\ topn \in 0..(RecWidth + 1)
    /\ n_items \in (NumItems - 1)..(NumItems + 1)
    /\ metrics = <<>>

NextEval == Evaluate

SpecEval == InitEval /\ [][NextEval]_vars

TypeOK ==
    pc \in {"start", "suppressed", "downvote_raised", "selected", "topn_raised",
            "recommended", "evaluated", "evaluate_raised"}

\* ============================================================= properties
\* The rank of a user identifier among the distinct identifiers of table d.
Rank(d, user) == Cardinality({x \in {d[k].user : k \in DOMAIN d} : x < user})

\* The <<row, item>> pairs of table d.
SeenPairs(d) == {<<Rank(d, d[k].user), d[k].item>> : k \in DOMAIN d}

\* Some pair of table d lies outside a matrix of nr rows and nc columns.
OutOfShape(d, nr, nc) ==
    \E s \in SeenPairs(d) : s[1] \notin 0..(nr - 1) \/ s[2] \notin 0..(nc - 1)

\* The items of a recommendation row.
Chosen(res) == {res[k] : k \in DOMAIN res}

\* res lists the columns of row by non-increasing score.
Descending(row, res) ==
    \A k \in DOMAIN res : (k + 1) \in DOMAIN res => row[res[k]] >= row[res[k + 1]]

\* res lists exactly the cnt best columns of row, best first.
BestOf(row, res, cnt) ==
    /\ DOMAIN res = 0..(cnt - 1)
    /\ Cardinality(Chosen(res)) = cnt
    /\ Chosen(res) \subseteq DOMAIN row
    /\ \A c \in Chosen(res) : \A j \in (DOMAIN row) \ Chosen(res) : row[c] >= row[j]
    /\ Descending(row, res)

\* topn_recommendations was called with an ordinary n.
SelectedOrdinary == pc = "selected" /\ topn \in 1..NCols(scores)

\* C1: after downvote_seen_items returns, scores[rank of user, item] is
\* -inf for every (user, item) of the table, the rank taken in the ascending
\* order of the distinct user identifiers, and every other entry is unchanged.
C1_SuppressionCorrect ==
    pc = "suppressed" =>
        /\ DOMAIN scores = DOMAIN scores0
        /\ \A u \in DOMAIN scores :
            /\ DOMAIN scores[u] = DOMAIN scores0[u]
            /\ \A i \in DOMAIN scores[u] :
                scores[u][i] = IF <<u, i>> \in SeenPairs(data) THEN NegInf ELSE scores0[u][i]

\* Two users listed in descending order of identifier, each with one item.
C1_Witness ==
    /\ pc = "suppressed"
    /\ Len(data) = 2
    /\ data[1].user > data[2].user
    /\ data[1].item # data[2].item
    /\ scores[1][data[1].item] = NegInf
    /\ scores[0][data[1].item] = scores0[0][data[1].item]

\* C9 as stated: a table with a normalized row outside [0, U) or an item
\* outside [0, I) makes downvote_seen_items fail with an IndexError.
C9_RaisesIndexError ==
    (pc # "start" /\ OutOfShape(data, NRows(scores0), NCols(scores0))) =>
        (pc = "downvote_raised" /\ err = "IndexError")

\* C9: on such a table downvote_seen_items does not complete normally: it
\* fails with the ValueError of np.ravel_multi_index and leaves scores as
\* they were.
C9_RaisesValueError ==
    (pc # "start" /\ OutOfShape(data, NRows(scores0), NCols(scores0))) =>
        (pc = "downvote_raised" /\ err = "ValueError" /\ scores = scores0)

\* More distinct users than rows, every item a valid column.
C9_Witness ==
    /\ pc = "downvote_raised"
    /\ \A k \in DOMAIN data : data[k].item \in Cols
    /\ \E k \in DOMAIN data : Rank(data, data[k].user) >= NRows(scores0)

\* The columns of row u that the table did not suppress.
Unseen(u) == {i \in DOMAIN scores[u] : <<u, i>> \notin SeenPairs(data)}

\* C2 as stated: after downvote_seen_items, no suppressed entry is among the
\* top-n recommendations of its row.
C2_NeverRecommended ==
    (SelectedOrdinary /\ data # <<>>) =>
        \A u \in DOMAIN recommendations : Chosen(recommendations[u]) \subseteq Unseen(u)

\* C2: in a row with at least n unseen items no suppressed entry is chosen,
\* and the row lists the highest-scored unseen items: no unseen item that was
\* left out had a higher score than a chosen one.
C2_UnseenFirst ==
    (SelectedOrdinary /\ data # <<>>) =>
        \A u \in DOMAIN recommendations :
            Cardinality(Unseen(u)) >= topn =>
                /\ Chosen(recommendations[u]) \subseteq Unseen(u)
                /\ \A c \in Chosen(recommendations[u]) :
                      \A j \in Unseen(u) \ Chosen(recommendations[u]) :
                          scores0[u][c] >= scores0[u][j]

\* The seen item held the top score of its row alone; the top-1 list names
\* another item.
C2_Witness ==
    /\ pc = "selected"
    /\ topn = 1
    /\ Len(data) = 1
    /\ \A i \in Cols \ {data[1].item} : scores0[0][data[1].item] > scores0[0][i]
    /\ recommendations[0][0] # data[1].item
    /\ \A i \in Unseen(0) : scores0[0][recommendations[0][0]] >= scores0[0][i]

\* C3: for 1 <= n <= I the indices returned for a row are n different
\* columns, none scored lower than a column left out; each of them is among
\* the first n of a full descending sort (fewer than n columns beat it).
C3_TopnExhaustive ==
    SelectedOrdinary =>
        \A u \in DOMAIN recommendations :
            LET row == scores[u]
                res == recommendations[u]
            IN  /\ Cardinality(Chosen(res)) = topn
                /\ \A c \in Chosen(res) :
                      /\ \A j \in (DOMAIN row) \ Chosen(res) : row[c] >= row[j]
                      /\ Cardinality({j \in DOMAIN row : row[j] > row[c]}) < topn

\* Three different scores in a row, the lowest left out of the top 2.
C3_Witness ==
    /\ pc = "selected"
    /\ topn = 2
    /\ \A i, j \in Cols : i # j => scores[0][i] # scores[0][j]
    /\ \A j \in Cols \ Chosen(recommendations[0]) :
          \A c \in Chosen(recommendations[0]) : scores[0][c] > scores[0][j]

\* C4: for 1 <= n <= I every row of the result holds exactly n column
\* indices, each in [0, I), in order of non-increasing score.
C4_CardinalityAndOrder ==
    SelectedOrdinary =>
        /\ DOMAIN recommendations = DOMAIN scores
        /\ \A u \in DOMAIN recommendations :
            /\ DOMAIN recommendations[u] = 0..(topn - 1)
            /\ \A k \in DOMAIN recommendations[u] : recommendations[u][k] \in 0..(NCols(scores) - 1)
            /\ Descending(scores[u], recommendations[u])

\* All items asked for, the first strictly better than the last.
C4_Witness ==
    /\ pc = "selected"
    /\ topn = NumItems
    /\ scores[0][recommendations[0][0]] > scores[0][recommendations[0][NumItems - 1]]

\* topn_recommendations was called with n <= 0 or n > I.
DegenerateCall == pc \in {"selected", "topn_raised"} /\ (topn <= 0 \/ topn > NCols(scores))

\* C5 as stated: a degenerate n (n <= 0 or n > I) does not raise, and for
\* n >= I every row is all items by descending score.
C5_DegenerateGraceful ==
    /\ DegenerateCall => pc = "selected"
    /\ (pc \in {"selected", "topn_raised"} /\ topn >= NCols(scores)) =>
          /\ pc = "selected"
          /\ \A u \in DOMAIN recommendations :
                BestOf(scores[u], recommendations[u], NCols(scores))

\* C5: n = 0 and n = I give every row as all items by descending score;
\* -I < n < 0 gives the I - |n| best items of every row; n > I and n <= -I
\* raise a ValueError.
C5_DegenerateAsCoded ==
    pc \in {"selected", "topn_raised"} =>
        LET cnt == NCols(scores)
        IN  /\ topn \in {0, cnt} =>
                /\ pc = "selected"
                /\ \A u \in DOMAIN recommendations : BestOf(scores[u], recommendations[u], cnt)
            /\ (topn < 0 /\ topn > 0 - cnt) =>
                /\ pc = "selected"
                /\ \A u \in DOMAIN recommendations :
                      BestOf(scores[u], recommendations[u], cnt + topn)
            /\ (topn > cnt \/ topn <= 0 - cnt) =>
                /\ pc = "topn_raised"
                /\ err = "ValueError"
                /\ recommendations = <<>>

\* One more item asked for than the matrix has columns.
C5_Witness == pc = "topn_raised" /\ topn = NumItems + 1 /\ NCols(scores) = NumItems

\* C10 as stated: of two chosen columns with the same score the one with
\* the smaller column index comes first.
C10_StableTies ==
    SelectedOrdinary =>
        \A u \in DOMAIN recommendations :
            \A k, l \in DOMAIN recommendations[u] :
                (k < l /\ scores[u][recommendations[u][k]] = scores[u][recommendations[u][l]])
                    => recommendations[u][k] < recommendations[u][l]

\* C10: chosen columns with the same score stand next to each other in the
\* row (nothing with another score between them); their order among
\* themselves is not fixed by the column index.
C10_TiesAdjacent ==
    pc = "selected" =>
        \A u \in DOMAIN recommendations :
            \A k, l \in DOMAIN recommendations[u] :
                (k < l /\ scores[u][recommendations[u][k]] = scores[u][recommendations[u][l]])
                    => \A m \in k..l :
                          scores[u][recommendations[u][m]] = scores[u][recommendations[u][k]]

\* Two equal scores chosen, the larger column index first.
C10_Witness ==
    /\ SelectedOrdinary
    /\ \E k \in DOMAIN recommendations[0] :
          /\ (k + 1) \in DOMAIN recommendations[0]
          /\ scores[0][recommendations[0][k]] = scores[0][recommendations[0][k + 1]]
          /\ recommendations[0][k] > recommendations[0][k + 1]

\* The first topn columns of a recommendation row (all of them when topn
\* exceeds the width).
FirstColumns == {k \in 0..(NCols(recommendations) - 1) : k < topn}

\* The user's held-out item is among the first topn items of the user's row.
IsHit(u) == \E k \in FirstColumns : recommendations[u][k] = holdout_items[u]

\* The items that occur anywhere in the recommendation matrix.
RecommendedItems ==
    {i \in Cols : \E u \in DOMAIN recommendations :
        \E k \in DOMAIN recommendations[u] : recommendations[u][k] = i}

\* C6: with the same positive number of rows in the recommendation matrix
\* and the holdout, 0 <= hr <= 1, and hr = 1 exactly when every user's
\* held-out item is among the first topn columns of the user's row.
C6_HitRateBound ==
    pc = "evaluated" =>
        /\ FracLeq(<<0, 1>>, metrics.hr)
        /\ FracLeq(metrics.hr, <<1, 1>>)
        /\ FracEq(metrics.hr, <<1, 1>>) <=> (\A u \in DOMAIN recommendations : IsHit(u))

\* Every user hit although only the first column is looked at.
C6_Witness ==
    /\ pc = "evaluated"
    /\ topn = 1
    /\ NCols(recommendations) > 1
    /\ FracEq(metrics.hr, <<1, 1>>)
    /\ \A u \in DOMAIN recommendations : recommendations[u][0] = holdout_items[u]

\* C7 as stated: 0 <= mrr <= hr for every recommendation matrix.
C7_MrrAtMostHr ==
    pc = "evaluated" =>
        /\ FracLeq(<<0, 1>>, metrics.mrr)
        /\ FracLeq(metrics.mrr, metrics.hr)

\* No row holds the user's held-out item twice among its first topn columns.
NoRepeatedHit ==
    \A u \in DOMAIN recommendations :
        \A k, l \in FirstColumns :
            (recommendations[u][k] = holdout_items[u] /\ recommendations[u][l] = holdout_items[u])
                => k = l

\* C7: 0 <= mrr always, and mrr <= hr when no row lists the user's held-out
\* item more than once among its first topn columns.
C7_MrrAtMostHrNoRepeats ==
    pc = "evaluated" =>
        /\ FracLeq(<<0, 1>>, metrics.mrr)
        /\ NoRepeatedHit => FracLeq(metrics.mrr, metrics.hr)

\* One user hit at rank 1 and another at rank 2, each once: mrr is below hr.
C7_Witness ==
    /\ pc = "evaluated"
    /\ NoRepeatedHit
    /\ recommendations[0][0] = holdout_items[0]
    /\ recommendations[1][1] = holdout_items[1]
    /\ topn >= 2
    /\ ~FracLeq(metrics.hr, metrics.mrr)

\* C8 as stated: cov is the number of distinct recommended items over
\* n_items, 0 <= cov <= 1, and cov = 1 when every item of the catalog is
\* recommended and n_items is the size of the catalog in use.
C8_CoverageBound ==
    pc = "evaluated" =>
        /\ metrics.cov = <<Cardinality(RecommendedItems), n_items>>
        /\ FracLeq(<<0, 1>>, metrics.cov)
        /\ FracLeq(metrics.cov, <<1, 1>>)
        /\ (RecommendedItems = Cols /\ n_items = NumItems) => FracEq(metrics.cov, <<1, 1>>)

\* C8: cov is the number of distinct items of the whole recommendation
\* matrix over n_items; 0 <= cov; cov <= 1 when n_items is at least the
\* number of distinct recommended items; and cov = 1 when every item of the
\* catalog is recommended and n_items is the size of the catalog in use.
C8_CoverageBoundCatalog ==
    pc = "evaluated" =>
        /\ metrics.cov = <<Cardinality(RecommendedItems), n_items>>
        /\ FracLeq(<<0, 1>>, metrics.cov)
        /\ Cardinality(RecommendedItems) <= n_items => FracLeq(metrics.cov, <<1, 1>>)
        /\ (RecommendedItems = Cols /\ n_items = NumItems) => FracEq(metrics.cov, <<1, 1>>)

\* The whole catalog recommended, part of it beyond the first topn columns.
C8_Witness ==
    /\ pc = "evaluated"
    /\ RecommendedItems = Cols
    /\ n_items = NumItems
    /\ topn = 1
    /\ FracEq(metrics.cov, <<1, 1>>)

====
